---------------------------- MODULE Spec2Model ----------------------------
(***************************************************************************)
(* Model of the dataframe pipeline of supermarket_customer_behavior:       *)
(*   data/__init__.py            add_entry_exit,                           *)
(*                               filter_non_exiting_customers,             *)
(*                               customers_by_location,                    *)
(*                               compute_customer_time_in_store,           *)
(*                               compute_customer_total                    *)
(*   model/transition_matrix.py  get_transition_matrix                     *)
(*                                                                         *)
(* A dataframe is a sequence of rows (records); the sequence order is the  *)
(* positional order of the frame and the field "index" is the pandas index *)
(* label of the row.  Timestamps and customer numbers are small integers.  *)
(***************************************************************************)
EXTENDS Integers, Sequences, FiniteSets

\* Bound of the model: the number of rows of the loaded table.
MaxRows == 3

\* A table of n rows holds at most n timestamps and at most n customers.
\* Every operation reads timestamps through their order (and the sign of
\* their difference) and customer numbers through equality and order, so
\* the timestamps of a table are taken without gaps from 1 and its customers
\* are numbered from 1.
Timestamps == 1..MaxRows
Customers == 1..MaxRows

\* The locations a scan row may carry, and the synthetic one.
CHECKOUT == "checkout"
ENTRANCE == "entrance"
Locations == {"checkout", "dairy"}

\* Argument lists handed to customers_by_location.
LocationRequests == { <<"dairy", "checkout">>, <<"checkout", "spices">> }

VARIABLES
    raw,    \* the table as loaded (load_day / load_all), never changed
    df,     \* the dataframe the pipeline works on
    prev,   \* df as it was handed to the operation applied last
    pc,     \* what df has been through:
            \* "loaded" | "tagged" | "filtered" | "refiltered" | "matrix"
    op,     \* name of the operation applied last
    arg,    \* the locations argument of the operation applied last
    out     \* value returned by the analysis applied last

vars == <<raw, df, prev, pc, op, arg, out>>

NoOut == [kind |-> "none"]

---------------------------------------------------------------------------
\* Generic helpers on frames.

Positions(d) == 1..Len(d)

SetOfCustomers(d) == { d[i].customer_no : i \in Positions(d) }

SetOfTimestamps(d) == { d[i].timestamp : i \in Positions(d) }

\* The frame d taken in the positional order given by the sequence of
\* positions p.
Take(d, p) == [k \in 1..Len(p) |-> d[p[k]]]

RECURSIVE SumSeq(_)
SumSeq(s) == IF s = <<>> THEN 0 ELSE Head(s) + SumSeq(Tail(s))

---------------------------------------------------------------------------
\* df.sort_values(by="timestamp"): the default kind is "quicksort", which is
\* not a stable sort; rows of equal timestamp may come out in any order.
\* TimestampOrders(d, S) is the set of orders of the positions S of d that
\* are ascending in timestamp.

RECURSIVE TimestampOrders(_, _)
TimestampOrders(d, S) ==
    IF S = {} THEN { <<>> }
    ELSE LET firsts == { i \in S : \A j \in S : d[i].timestamp <= d[j].timestamp }
         IN UNION { { <<i>> \o t : t \in TimestampOrders(d, S \ {i}) } : i \in firsts }

SortValuesByTimestamp(d) == { Take(d, p) : p \in TimestampOrders(d, Positions(d)) }

---------------------------------------------------------------------------
\* add_entry_exit

\* ~df["customer_no"].duplicated(): true on the first row of each customer
\* in positional order.
IsFirstOccurrence(d, i) == \A j \in 1..(i - 1) : d[j].customer_no # d[i].customer_no

\* A variant of CustomerCountChange whose second assignment selects the entry
\* rows again instead of the exit rows.
CustomerCountChangeEntryMaskTwice(entry, exit) ==
    LET c0 == 0
        c1 == IF entry THEN 1 ELSE c0
        c2 == IF entry THEN -1 ELSE c1
    IN c2

\* customer_count_change: 0, then 1 on entry rows, then -1 on exit rows
\* (the later assignment overwrites the earlier one).
CustomerCountChange(entry, exit) ==
    LET c0 == 0
        c1 == IF entry THEN 1 ELSE c0
        c2 == IF exit THEN -1 ELSE c1
    IN c2

TagRows(s) ==
    [i \in Positions(s) |->
        LET entry == IsFirstOccurrence(s, i)
            exit  == s[i].location = CHECKOUT
        IN [index |-> s[i].index,
            timestamp |-> s[i].timestamp,
            customer_no |-> s[i].customer_no,
            location |-> s[i].location,
            entry |-> entry,
            exit |-> exit,
            customer_count_change |-> CustomerCountChange(entry, exit)]]

\* The set of frames add_entry_exit(d) may return.
add_entry_exit(d) == { TagRows(s) : s \in SortValuesByTimestamp(d) }

---------------------------------------------------------------------------
\* filter_non_exiting_customers

\* ~df.iloc[::-1]["customer_no"].duplicated(): true on the last row of each
\* customer in positional order (the index labels of a frame are unique, so
\* the assignment aligns every flag with its own row).
IsLastOccurrence(d, i) == \A j \in (i + 1)..Len(d) : d[j].customer_no # d[i].customer_no

\* A variant of InvalidCustomers without the negation of the exit flag.
InvalidCustomersWithoutNegation(s) ==
    { s[i].customer_no : i \in { k \in Positions(s) : IsLastOccurrence(s, k) /\ s[k].exit } }

\* df.loc[df["last_appearance"] & ~df["exit"], "customer_no"]
InvalidCustomers(s) ==
    { s[i].customer_no : i \in { k \in Positions(s) : IsLastOccurrence(s, k) /\ ~s[k].exit } }

\* .reset_index(drop=True)
ResetIndex(d) == [k \in Positions(d) |-> [d[k] EXCEPT !.index = k - 1]]

FilterSorted(s) ==
    LET invalid == InvalidCustomers(s)
        Valid(r) == r.customer_no \notin invalid
    IN ResetIndex(SelectSeq(s, Valid))

\* The set of frames filter_non_exiting_customers(d) may return.
filter_non_exiting_customers(d) == { FilterSorted(s) : s \in SortValuesByTimestamp(d) }

---------------------------------------------------------------------------
\* customers_by_location

CountRows(d, t, l) ==
    Cardinality({ i \in Positions(d) : d[i].timestamp = t /\ d[i].location = l })

\* groupby(["timestamp", "location"]).size().unstack(fill_value=0) has one
\* column per location that occurs in the frame; .loc[:, locations] raises
\* KeyError when a requested label is not among the columns.  (A frame
\* without rows has no column at all.)
customers_by_location(d, locations) ==
    LET columns == { d[i].location : i \in Positions(d) }
        wanted  == { locations[k] : k \in 1..Len(locations) }
    IN IF ~(wanted \subseteq columns)
       THEN [kind |-> "KeyError"]
       ELSE [kind |-> "frame",
             index |-> SetOfTimestamps(d),
             columns |-> locations,
             data |-> [t \in SetOfTimestamps(d) |->
                         [l \in wanted |-> CountRows(d, t, l)]]]

---------------------------------------------------------------------------
\* compute_customer_time_in_store

RowsOfCustomer(d, c) == LET Mine(r) == r.customer_no = c IN SelectSeq(d, Mine)

ExitRows(g) == LET IsExit(r) == r.exit IN SelectSeq(g, IsExit)

EntryRows(g) == LET IsEntry(r) == r.entry IN SelectSeq(g, IsEntry)

\* customer[customer["exit"]].iloc[0].timestamp
\*   - customer[customer["entry"]].iloc[0].timestamp
\* .iloc[0] of a selection without rows raises IndexError.
TimeInStore(g) == ExitRows(g)[1].timestamp - EntryRows(g)[1].timestamp

compute_customer_time_in_store(d) ==
    IF \E c \in SetOfCustomers(d) :
          \/ ExitRows(RowsOfCustomer(d, c)) = <<>>
          \/ EntryRows(RowsOfCustomer(d, c)) = <<>>
    THEN [kind |-> "IndexError"]
    ELSE [kind |-> "series",
          value |-> [c \in SetOfCustomers(d) |-> TimeInStore(RowsOfCustomer(d, c))]]

---------------------------------------------------------------------------
\* compute_customer_total

\* A variant of CumSum that leaves the row's own change out.
CumSumBeforeRow(d, i) == SumSeq([k \in 1..(i - 1) |-> d[k].customer_count_change])

\* df["customer_count_change"].cumsum(): the running sum in positional order.
CumSum(d, i) == SumSeq([k \in 1..i |-> d[k].customer_count_change])

WithCustomerTotal(d) ==
    [i \in Positions(d) |->
        [index |-> d[i].index,
         timestamp |-> d[i].timestamp,
         customer_no |-> d[i].customer_no,
         location |-> d[i].location,
         entry |-> d[i].entry,
         exit |-> d[i].exit,
         customer_count_change |-> d[i].customer_count_change,
         customer_total |-> CumSum(d, i)]]

\* A variant of GroupByTimestampLast that takes the first row of each
\* timestamp (.first()).
GroupByTimestampFirst(d) ==
    [t \in SetOfTimestamps(d) |->
        d[CHOOSE i \in Positions(d) :
            /\ d[i].timestamp = t
            /\ \A j \in 1..(i - 1) : d[j].timestamp # t].customer_total]

\* .groupby("timestamp").last(): the row of each timestamp that comes last
\* in positional order.
LastPositionOf(d, t) ==
    CHOOSE i \in Positions(d) :
        /\ d[i].timestamp = t
        /\ \A j \in (i + 1)..Len(d) : d[j].timestamp # t

GroupByTimestampLast(d) ==
    [t \in SetOfTimestamps(d) |-> d[LastPositionOf(d, t)].customer_total]

compute_customer_total(d) ==
    [kind |-> "frame",
     index |-> SetOfTimestamps(d),
     customer_total |-> GroupByTimestampLast(WithCustomerTotal(d))]

---------------------------------------------------------------------------
\* get_transition_matrix

NA == "NA"

\* add_entrance_location is imported from the data package but is not part
\* of the sources at hand; it is modelled from the design description: one
\* synthetic "entrance" row per customer, placed immediately before the
\* customer's first row and carrying that row's timestamp.
EntranceRow(r) ==
    [index |-> r.index,
     timestamp |-> r.timestamp,
     customer_no |-> r.customer_no,
     location |-> ENTRANCE,
     entry |-> FALSE,
     exit |-> FALSE,
     customer_count_change |-> 0]

RECURSIVE add_entrance_location(_)
add_entrance_location(d) ==
    IF d = <<>> THEN <<>>
    ELSE LET n == Len(d)
             init == SubSeq(d, 1, n - 1)
             rest == add_entrance_location(init)
         IN IF IsFirstOccurrence(d, n)
            THEN rest \o <<EntranceRow(d[n]), d[n]>>
            ELSE Append(rest, d[n])

\* df.sort_values(by=["customer_no", "timestamp"]): with several keys pandas
\* sorts through lexsort_indexer, which keeps rows of equal keys in their
\* positional order.
KeyLess(a, b) ==
    \/ a.customer_no < b.customer_no
    \/ a.customer_no = b.customer_no /\ a.timestamp < b.timestamp

RECURSIVE CustomerTimestampOrder(_, _)
CustomerTimestampOrder(d, S) ==
    IF S = {} THEN <<>>
    ELSE LET i == CHOOSE k \in S :
                     \A j \in S \ {k} :
                        \/ KeyLess(d[k], d[j])
                        \/ ~KeyLess(d[j], d[k]) /\ k < j
         IN <<i>> \o CustomerTimestampOrder(d, S \ {i})

SortValuesByCustomerTimestamp(d) == Take(d, CustomerTimestampOrder(d, Positions(d)))

\* A variant of NextLocation without the .where(~df["exit"], None) mask.
NextLocationUnmasked(d, i) == IF i < Len(d) THEN d[i + 1].location ELSE NA

\* df["location"].shift(-1).where(~df["exit"], None)
NextLocation(d, i) ==
    LET shifted == IF i < Len(d) THEN d[i + 1].location ELSE NA
    IN IF ~d[i].exit THEN shifted ELSE NA

WithNextLocation(d) ==
    [i \in Positions(d) |->
        [index |-> d[i].index,
         timestamp |-> d[i].timestamp,
         customer_no |-> d[i].customer_no,
         location |-> d[i].location,
         entry |-> d[i].entry,
         exit |-> d[i].exit,
         customer_count_change |-> d[i].customer_count_change,
         next_location |-> NextLocation(d, i)]]

\* pd.crosstab(df["location"], df["next_location"], normalize="index"):
\* rows whose next_location is missing are left out; the table has one row
\* per location and one column per next_location that remain; every count
\* is divided by the total of its row.  A quotient is kept as the pair
\* [num, den].
PairCount(d, a, b) ==
    Cardinality({ i \in Positions(d) : d[i].location = a /\ d[i].next_location = b })

RowTotal(d, a) ==
    Cardinality({ i \in Positions(d) : d[i].location = a /\ d[i].next_location # NA })

\* A variant of NormalizeIndex that leaves the counts as they are
\* (normalize=False).
NormalizeNot(count, total) == [num |-> count, den |-> 1]

NormalizeIndex(count, total) == [num |-> count, den |-> total]

crosstab(d) ==
    LET kept == { i \in Positions(d) : d[i].next_location # NA }
        rows == { d[i].location : i \in kept }
        cols == { d[i].next_location : i \in kept }
    IN [kind |-> "matrix",
        index |-> rows,
        columns |-> cols,
        data |-> [a \in rows |->
                    [b \in cols |-> NormalizeIndex(PairCount(d, a, b), RowTotal(d, a))]]]

\* The frames (with the next_location column) get_transition_matrix may
\* reach from the loaded table d before the cross tabulation.
TransitionFrames(d) ==
    UNION { { WithNextLocation(SortValuesByCustomerTimestamp(add_entrance_location(f)))
              : f \in filter_non_exiting_customers(t) }
            : t \in add_entry_exit(d) }

---------------------------------------------------------------------------
\* load_day / load_all: rows (timestamp, customer_no, location) under a
\* RangeIndex, in the order of the file, which need not be the order of time.
LoadedTable(ts, cs, ls) ==
    [i \in DOMAIN ts |->
        [index |-> i - 1,
         timestamp |-> ts[i],
         customer_no |-> cs[i],
         location |-> ls[i]]]

\* The values of f are exactly 1..k for some k.
WithoutGaps(f) ==
    \A i \in DOMAIN f : f[i] # 1 => \E j \in DOMAIN f : f[j] = f[i] - 1

\* The values of f are numbered in the order of their first occurrence.
NumberedByAppearance(f) ==
    \A i \in DOMAIN f : f[i] # 1 => \E j \in 1..(i - 1) : f[j] = f[i] - 1

Init ==
    /\ \E n \in 1..MaxRows :
          \E cs \in [1..n -> Customers] :
             /\ NumberedByAppearance(cs)
             /\ \E ts \in [1..n -> Timestamps] :
                   /\ WithoutGaps(ts)
                   /\ \E ls \in [1..n -> Locations] :
                         raw = LoadedTable(ts, cs, ls)
    /\ df = raw
    /\ prev = raw
    /\ pc = "loaded"
    /\ op = "load_all"
    /\ arg = <<>>
    /\ out = NoOut

\* An analysis ends a run: nothing is applied to its result.
Analysed == out # NoOut

AddEntryExit ==
    /\ pc = "loaded"
    /\ df' \in add_entry_exit(df)
    /\ prev' = df
    /\ pc' = "tagged"
    /\ op' = "add_entry_exit"
    /\ UNCHANGED <<raw, arg, out>>

FilterNonExitingCustomers ==
    /\ pc \in {"tagged", "filtered"}
    /\ ~Analysed
    /\ df' \in filter_non_exiting_customers(df)
    /\ prev' = df
    /\ pc' = IF pc = "tagged" THEN "filtered" ELSE "refiltered"
    /\ op' = "filter_non_exiting_customers"
    /\ UNCHANGED <<raw, arg, out>>

CustomersByLocation ==
    /\ pc \in {"tagged", "filtered"}
    /\ ~Analysed
    /\ \E locations \in LocationRequests :
          /\ arg' = locations
          /\ out' = customers_by_location(df, locations)
    /\ prev' = df
    /\ op' = "customers_by_location"
    /\ UNCHANGED <<raw, df, pc>>

ComputeCustomerTimeInStore ==
    /\ pc \in {"tagged", "filtered"}
    /\ ~Analysed
    /\ out' = compute_customer_time_in_store(df)
    /\ prev' = df
    /\ op' = "compute_customer_time_in_store"
    /\ UNCHANGED <<raw, df, pc, arg>>

ComputeCustomerTotal ==
    /\ pc \in {"tagged", "filtered"}
    /\ ~Analysed
    /\ df' = WithCustomerTotal(df)
    /\ out' = compute_customer_total(df)
    /\ prev' = df
    /\ op' = "compute_customer_total"
    /\ UNCHANGED <<raw, pc, arg>>

GetTransitionMatrix ==
    /\ pc = "loaded"
    /\ \E d \in TransitionFrames(df) :
          /\ df' = d
          /\ out' = crosstab(d)
    /\ prev' = df
    /\ pc' = "matrix"
    /\ op' = "get_transition_matrix"
    /\ UNCHANGED <<raw, arg>>

Next ==
    \/ AddEntryExit
    \/ FilterNonExitingCustomers
    \/ CustomersByLocation
    \/ ComputeCustomerTimeInStore
    \/ ComputeCustomerTotal
    \/ GetTransitionMatrix

Spec == Init /\ [][Next]_vars

---------------------------------------------------------------------------
\* Vocabulary of the properties.

\* The positions of the rows of customer c in d.
PositionsOf(d, c) == { i \in Positions(d) : d[i].customer_no = c }

\* The columns of a tagged row without its index label.
Content(r) ==
    [timestamp |-> r.timestamp,
     customer_no |-> r.customer_no,
     location |-> r.location,
     entry |-> r.entry,
     exit |-> r.exit,
     customer_count_change |-> r.customer_count_change]

Contents(d) == [i \in Positions(d) |-> Content(d[i])]

\* The sum of customer_count_change over the rows of d of timestamp at most
\* T, and over all rows of d.
ChangeUpTo(d, T) ==
    SumSeq([i \in Positions(d) |->
               IF d[i].timestamp <= T THEN d[i].customer_count_change ELSE 0])

TotalChange(d) == SumSeq([i \in Positions(d) |-> d[i].customer_count_change])

\* Every customer of d has an entry row and an exit row.
EveryCustomerEntersAndExits(d) ==
    \A c \in SetOfCustomers(d) :
        /\ \E i \in PositionsOf(d, c) : d[i].entry
        /\ \E i \in PositionsOf(d, c) : d[i].exit

\* Every customer of d has exactly one entry row and exactly one exit row,
\* and they are two rows.
EveryCustomerEntersThenExitsOnce(d) ==
    \A c \in SetOfCustomers(d) :
        /\ Cardinality({ i \in PositionsOf(d, c) : d[i].entry }) = 1
        /\ Cardinality({ i \in PositionsOf(d, c) : d[i].exit }) = 1
        /\ \A i \in PositionsOf(d, c) : ~(d[i].entry /\ d[i].exit)

---------------------------------------------------------------------------
\* C1: after add_entry_exit every customer has exactly one entry row, it has
\* the customer's minimum timestamp, and among the customer's rows of that
\* timestamp it is the one that came first in the loaded table.
C1_EntryIsFirstRowOfMinimumTimestamp ==
    pc = "tagged" /\ op = "add_entry_exit" =>
        \A c \in SetOfCustomers(df) :
            \E i \in PositionsOf(df, c) :
                /\ df[i].entry
                /\ \A j \in PositionsOf(df, c) \ {i} : ~df[j].entry
                /\ \A j \in PositionsOf(df, c) : df[i].timestamp <= df[j].timestamp
                /\ \A j \in PositionsOf(df, c) :
                      df[j].timestamp = df[i].timestamp => df[i].index <= df[j].index

\* What add_entry_exit does establish: every customer has exactly one entry
\* row, and no row of the customer has a smaller timestamp.
ExactlyOneEntryOfMinimumTimestamp ==
    pc = "tagged" /\ op = "add_entry_exit" =>
        \A c \in SetOfCustomers(df) :
            \E i \in PositionsOf(df, c) :
                /\ df[i].entry
                /\ \A j \in PositionsOf(df, c) \ {i} : ~df[j].entry
                /\ \A j \in PositionsOf(df, c) : df[i].timestamp <= df[j].timestamp

\* The customers of the tagged table d whose last row is an exit row, and
\* their rows in the order of d.
KeptCustomers(d) ==
    { c \in SetOfCustomers(d) :
        \E i \in PositionsOf(d, c) : IsLastOccurrence(d, i) /\ d[i].exit }

RowsOfKeptCustomers(d) ==
    LET Kept(r) == r.customer_no \in KeptCustomers(d) IN SelectSeq(d, Kept)

\* C2: filter_non_exiting_customers returns exactly the rows of the customers
\* whose last row of the tagged table is an exit row, all of them and in the
\* order they had, so that every customer of the result ends on an exit row.
C2_FilterKeepsExactlyExitingCustomers ==
    pc = "filtered" /\ op = "filter_non_exiting_customers" =>
        /\ Contents(df) = Contents(RowsOfKeptCustomers(prev))
        /\ \A i \in Positions(df) : IsLastOccurrence(df, i) => df[i].exit

\* What filter_non_exiting_customers does establish: a customer keeps all of
\* its rows or none, and every customer of the result ends on an exit row.
FilterKeepsAllOrNothingAndEndsOnExit ==
    pc = "filtered" /\ op = "filter_non_exiting_customers" =>
        /\ \A c \in SetOfCustomers(df) :
              Cardinality(PositionsOf(df, c)) = Cardinality(PositionsOf(prev, c))
        /\ \A i \in Positions(df) : IsLastOccurrence(df, i) => df[i].exit
        /\ \A i \in 1..(Len(df) - 1) : df[i].timestamp <= df[i + 1].timestamp

\* C3: filter_non_exiting_customers applied to its own result returns the
\* same rows in the same order.
C3_FilterIsIdempotent ==
    pc = "refiltered" /\ op = "filter_non_exiting_customers" => df = prev

\* C4 as claimed: in a tagged table all of whose customers have an entry row
\* and an exit row, customer_count_change sums to zero.
C4_ChangesSumToZero ==
    /\ pc \in {"tagged", "filtered"}
    /\ ~Analysed
    /\ EveryCustomerEntersAndExits(df)
    => TotalChange(df) = 0

\* C4 as amended: in a tagged table all of whose customers have exactly one
\* exit row, which is not their entry row, customer_count_change sums to
\* zero.
C4_ChangesSumToZeroWhenExitingOnce ==
    /\ pc \in {"tagged", "filtered"}
    /\ ~Analysed
    /\ EveryCustomerEntersThenExitsOnce(df)
    => TotalChange(df) = 0

C4_Witness ==
    /\ pc = "filtered"
    /\ ~Analysed
    /\ df # <<>>
    /\ SetOfCustomers(df) # SetOfCustomers(raw)
    /\ EveryCustomerEntersThenExitsOnce(df)

\* C5: compute_customer_total of a tagged (or tagged and filtered) table has
\* one row per timestamp T of the table, and its customer_total at T is the
\* sum of customer_count_change over the rows of timestamp at most T.
C5_TotalIsSumOfChangesUpTo ==
    op = "compute_customer_total" =>
        /\ out.kind = "frame"
        /\ out.index = SetOfTimestamps(prev)
        /\ DOMAIN out.customer_total = SetOfTimestamps(prev)
        /\ \A T \in SetOfTimestamps(prev) : out.customer_total[T] = ChangeUpTo(prev, T)

C5_Witness ==
    /\ op = "compute_customer_total"
    /\ Cardinality(SetOfTimestamps(prev)) = 2
    /\ \E i, j \in Positions(prev) :
          /\ i < j
          /\ prev[i].timestamp = prev[j].timestamp
          /\ prev[i].customer_count_change # 0
          /\ prev[j].customer_count_change # 0

\* C6: customers_by_location does not fail on a requested location that does
\* not occur in the table: the result has the requested columns in the
\* requested order and the column of such a location is zero throughout.
C6_MissingLocationIsZeroColumn ==
    op = "customers_by_location" =>
        /\ out.kind = "frame"
        /\ out.columns = arg
        /\ \A k \in 1..Len(arg) : \A t \in out.index :
              out.data[t][arg[k]] = CountRows(prev, t, arg[k])

\* The least timestamp of the exit rows of customer c, and the timestamp of
\* its entry row.
EarliestExit(d, c) ==
    CHOOSE t \in { d[i].timestamp : i \in { k \in PositionsOf(d, c) : d[k].exit } } :
        \A i \in PositionsOf(d, c) : d[i].exit => t <= d[i].timestamp

EntryTime(d, c) == d[CHOOSE i \in PositionsOf(d, c) : d[i].entry].timestamp

\* C7: on a tagged and filtered table compute_customer_time_in_store succeeds
\* for every customer, and each duration is the timestamp of the customer's
\* earliest exit row minus that of its entry row, and is not negative.
C7_DurationsExistAndAreNotNegative ==
    pc = "filtered" /\ op = "compute_customer_time_in_store" =>
        /\ out.kind = "series"
        /\ DOMAIN out.value = SetOfCustomers(df)
        /\ \A c \in SetOfCustomers(df) :
              /\ out.value[c] = EarliestExit(df, c) - EntryTime(df, c)
              /\ out.value[c] >= 0

C7_Witness ==
    /\ pc = "filtered"
    /\ op = "compute_customer_time_in_store"
    /\ out.kind = "series"
    /\ \E c \in SetOfCustomers(df) : out.value[c] > 0
    /\ SetOfCustomers(df) # SetOfCustomers(raw)

Outbound(d, a) == { i \in Positions(d) : d[i].location = a /\ d[i].next_location # NA }

SourceLocations(d) == { d[i].location : i \in Positions(d) }

RowSum(m, a) ==
    LET cols == DOMAIN m.data[a]
        RECURSIVE Sum(_)
        Sum(S) == IF S = {} THEN 0
                  ELSE LET b == CHOOSE x \in S : TRUE
                       IN m.data[a][b].num + Sum(S \ {b})
    IN Sum(cols)

LastTimestamp(d) == CHOOSE t \in SetOfTimestamps(d) : \A u \in SetOfTimestamps(d) : u <= t

TotalWithinBounds ==
    /\ \A t \in out.index :
          /\ out.customer_total[t] >= 0
          /\ out.customer_total[t] <= Cardinality(SetOfCustomers(prev))
    /\ prev # <<>> => out.customer_total[LastTimestamp(prev)] = 0

\* C10 as claimed: the customer_total of a tagged and filtered table is at
\* every timestamp at least 0 and at most the number of customers, and is 0
\* at the last timestamp.
C10_TotalWithinBounds ==
    pc = "filtered" /\ op = "compute_customer_total" => TotalWithinBounds

\* C10 as amended: the same, for a tagged and filtered table all of whose
\* customers have exactly one exit row, which is not their entry row.
C10_TotalWithinBoundsWhenExitingOnce ==
    /\ pc = "filtered"
    /\ op = "compute_customer_total"
    /\ EveryCustomerEntersThenExitsOnce(prev)
    => TotalWithinBounds

C10_Witness ==
    /\ pc = "filtered"
    /\ op = "compute_customer_total"
    /\ EveryCustomerEntersThenExitsOnce(prev)
    /\ Cardinality(SetOfTimestamps(prev)) >= 2
    /\ \E t \in out.index : out.customer_total[t] > 0

===========================================================================
